---------------------------- MODULE Spec2Model ----------------------------
(***************************************************************************)
(* A model of the rustic-raycaster crate: the grid-line Interceptor, the   *)
(* two-axis Raycaster merge (src/src/geometry.rs), the column loop and     *)
(* clip of the renderer (src/src/render.rs) and the map loader's grid      *)
(* parsing and border validation (src/src/loader.rs).                      *)
(*                                                                         *)
(* f64 values are modelled as extended rationals: a finite value is an     *)
(* exact fraction n/d in lowest terms, and the three special values +inf,  *)
(* -inf and NaN follow the IEEE-754 rules the code relies on (x/0, 0*inf,  *)
(* comparisons with NaN, saturating `as usize` casts).  Rounding is not    *)
(* modelled, and neither is the sign of zero: the code only ever tests a   *)
(* zero with `< 0.0`, which is false for both zeros, and the sign of an    *)
(* infinite slope never reaches an emitted Hit.                            *)
(***************************************************************************)
EXTENDS Integers, Sequences, FiniteSets, TLC

VARIABLES
    rc,      \* the Raycaster under test: [g, d, xint, yint]
    out,     \* what each successive Raycaster::next call returned
    it,      \* a stand-alone Interceptor
    iarg,    \* the arguments (p, d, size) it was built from
    trip,    \* the triples the stand-alone Interceptor has emitted
    cx,      \* clip: the f64 argument
    cbound,  \* clip: the u32 bound
    cres,    \* clip: the outcome of the call
    lines,   \* loader: the map lines handed to load_map
    hdr,     \* loader: whether the header section loaded
    lres,    \* loader: the outcome of Map::load
    map,     \* render: the cells of the Map that was loaded
    rnd,     \* render: the Render value [pos, cam, w, h]
    col,     \* render: the next screen column of the loop in Render::render
    strips   \* render: per finished column, the wall hit found (or the abort)

rayVars == <<rc, out>>
intVars == <<it, iarg, trip>>
clipVars == <<cx, cbound, cres>>
loadVars == <<lines, hdr, lres>>
renderVars == <<map, rnd, col, strips>>
vars == <<rc, out, it, iarg, trip, cx, cbound, cres, lines, hdr, lres, map, rnd, col, strips>>

-----------------------------------------------------------------------------
(* f64 as extended rationals *)

Abs(i) == IF i < 0 THEN -i ELSE i

RECURSIVE GCD(_, _)
GCD(a, b) == IF b = 0 THEN a ELSE GCD(b, a % b)

\* The fraction n/d (d # 0) in lowest terms with a positive denominator.
Rat(n, d) ==
    LET g == GCD(Abs(n), Abs(d))
        s == IF d < 0 THEN -1 ELSE 1
    IN [k |-> "fin", n |-> (s * n) \div g, d |-> (s * d) \div g]

F(i) == Rat(i, 1)
Zero == F(0)
One == F(1)
PInf == [k |-> "inf", n |-> 1, d |-> 1]
NInf == [k |-> "inf", n |-> -1, d |-> 1]
NaN == [k |-> "nan", n |-> 0, d |-> 1]

IsFin(a) == a.k = "fin"
IsNaN(a) == a.k = "nan"
is_infinite(a) == a.k = "inf"
Sign(a) == IF a.n > 0 THEN 1 ELSE IF a.n < 0 THEN -1 ELSE 0

FNeg(a) == [a EXCEPT !.n = -a.n]

FAdd(a, b) ==
    IF IsNaN(a) \/ IsNaN(b) THEN NaN
    ELSE IF is_infinite(a) /\ is_infinite(b) THEN (IF a.n = b.n THEN a ELSE NaN)
    ELSE IF is_infinite(a) THEN a
    ELSE IF is_infinite(b) THEN b
    ELSE Rat(a.n * b.d + b.n * a.d, a.d * b.d)

FSub(a, b) == FAdd(a, FNeg(b))

FMul(a, b) ==
    IF IsNaN(a) \/ IsNaN(b) THEN NaN
    ELSE IF is_infinite(a) \/ is_infinite(b)
         THEN (IF Sign(a) * Sign(b) = 0 THEN NaN
               ELSE IF Sign(a) * Sign(b) > 0 THEN PInf ELSE NInf)
    ELSE Rat(a.n * b.n, a.d * b.d)

FDiv(a, b) ==
    IF IsNaN(a) \/ IsNaN(b) THEN NaN
    ELSE IF is_infinite(a)
         THEN (IF is_infinite(b) THEN NaN
               ELSE IF Sign(a) * Sign(b) < 0 THEN NInf ELSE PInf)
    ELSE IF is_infinite(b) THEN Zero
    ELSE IF b.n = 0
         THEN (IF a.n = 0 THEN NaN ELSE IF a.n > 0 THEN PInf ELSE NInf)
    ELSE Rat(a.n * b.d, a.d * b.n)

\* a < b and a <= b on f64: false as soon as one side is NaN.
FLt(a, b) ==
    /\ ~IsNaN(a) /\ ~IsNaN(b)
    /\ IF is_infinite(a) THEN a.n < 0 /\ b # a
       ELSE IF is_infinite(b) THEN b.n > 0
       ELSE a.n * b.d < b.n * a.d

FLe(a, b) == ~IsNaN(a) /\ ~IsNaN(b) /\ (a = b \/ FLt(a, b))

FGe(a, b) == FLe(b, a)

\* The largest integer <= n/d, for d > 0.
FloorDiv(n, d) == IF n >= 0 THEN n \div d ELSE -((-n + d - 1) \div d)

FFloor(a) == IF IsFin(a) THEN F(FloorDiv(a.n, a.d)) ELSE a

FCeil(a) == IF IsFin(a) THEN F(-FloorDiv(-a.n, a.d)) ELSE a

\* usize::MAX, which a cast of +inf saturates to.  It is only ever compared
\* with a grid size; TLC's integers stop at 2^31 - 1.
UsizeMax == 2147483647

\* `v as usize`: truncation toward zero, NaN to 0, saturating at both ends.
AsUsize(a) ==
    IF IsNaN(a) THEN 0
    ELSE IF is_infinite(a) THEN (IF a.n > 0 THEN UsizeMax ELSE 0)
    ELSE IF a.n < 0 THEN 0
    ELSE a.n \div a.d

-----------------------------------------------------------------------------
(* geometry.rs: Vector, Grid *)

v(x, y) == [x |-> x, y |-> y]

flip(a) == v(a.y, a.x)

turn(a) == v(FNeg(a.y), a.x)

VAdd(a, b) == v(FAdd(a.x, b.x), FAdd(a.y, b.y))

VScale(a, s) == v(FMul(a.x, s), FMul(a.y, s))

\* self.squared_distance(rhs)
squared_distance(self, rhs) ==
    LET dx == FSub(rhs.x, self.x)
        dy == FSub(rhs.y, self.y)
    IN FAdd(FMul(dx, dx), FMul(dy, dy))

Grid(height, width) == [height |-> height, width |-> width]

\* contains with both ranges closed at the far end.
contains_inclusive(g, x, y) == (0 <= y /\ y <= g.height) /\ (0 <= x /\ x <= g.width)

contains(g, x, y) == (0 <= y /\ y < g.height) /\ (0 <= x /\ x < g.width)

-----------------------------------------------------------------------------
(* geometry.rs: DynRange, bounded_iterator, Interceptor *)

\* Either<Range<usize>, Rev<Range<usize>>>: the range lo..hi and its direction.
RangeLeft(lo, hi) == [rev |-> FALSE, lo |-> lo, hi |-> hi]
RangeRight(lo, hi) == [rev |-> TRUE, lo |-> lo, hi |-> hi]

RangeEmpty(r) == r.lo >= r.hi

\* The next index of a non-empty range, and the range after taking it.
RangeHead(r) == IF r.rev THEN r.hi - 1 ELSE r.lo
RangeTail(r) == IF r.rev THEN [r EXCEPT !.hi = r.hi - 1] ELSE [r EXCEPT !.lo = r.lo + 1]

\* bounded_iterator stopping one line short of the far edge.
bounded_iterator_short(start, direction, size) ==
    IF size = 0 \/ FLt(start, Zero)
    THEN RangeLeft(1, 0)
    ELSE LET ceil == AsUsize(FCeil(start))
         IN IF FLt(direction, Zero)
            THEN RangeRight(1, ceil)
            ELSE RangeLeft(ceil, size - 1)

bounded_iterator(start, direction, size) ==
    IF size = 0 \/ FLt(start, Zero)
    THEN RangeLeft(1, 0)
    ELSE LET ceil == AsUsize(FCeil(start))
         IN IF FLt(direction, Zero)
            THEN RangeRight(1, ceil)
            ELSE RangeLeft(ceil, size)

InterceptorNew(p, d, size) ==
    [p |-> p, slope |-> FDiv(d.y, d.x), range |-> bounded_iterator(p.x, d.x, size)]

\* The triple Interceptor::next computes for line index xi.
InterceptorItem(i, xi) ==
    LET x == F(xi)
        y == FAdd(i.p.y, FMul(FSub(x, i.p.x), i.slope))
        pt == v(x, y)
    IN [xi |-> xi, dist |-> squared_distance(pt, i.p), pt |-> pt]

\* Interceptor::next, for an Interceptor whose range is not exhausted.
InterceptorHead(i) == InterceptorItem(i, RangeHead(i.range))
InterceptorAdvance(i) == [i EXCEPT !.range = RangeTail(i.range)]
InterceptorDone(i) == RangeEmpty(i.range)


-----------------------------------------------------------------------------
(* geometry.rs: Raycaster *)

\* Peekable<Interceptor>::peek: the pending candidate, without consuming it.
\* (Peekable caches the item it pulled; for this deterministic inner iterator
\* that is the head of the remaining range.)
NoItem == [xi |-> 0, dist |-> NaN, pt |-> v(NaN, NaN)]
peek(i) == IF InterceptorDone(i) THEN NoItem ELSE InterceptorHead(i)

RaycasterNew(p, d, g) ==
    [g |-> g, d |-> d,
     xint |-> InterceptorNew(p, d, g.width),
     yint |-> InterceptorNew(flip(p), flip(d), g.height)]

\* The first match of Raycaster::next: which Interceptor is consumed.
\* "none" is the (None, None) arm.
Winner(r) ==
    IF InterceptorDone(r.xint) /\ InterceptorDone(r.yint) THEN "none"
    ELSE IF InterceptorDone(r.yint) THEN "x"
    ELSE IF InterceptorDone(r.xint) THEN "y"
    ELSE IF FLe(peek(r.xint).dist, peek(r.yint).dist) THEN "x" ELSE "y"

\* The `if xhit` branch: the Hit derived from a vertical-line candidate.
XHit(r, c) ==
    LET fy == FFloor(c.pt.y)
    IN [x |-> IF FLt(r.d.x, Zero) THEN c.xi - 1 ELSE c.xi,
        y |-> AsUsize(fy),
        direction |-> IF FLt(r.d.x, Zero) THEN "E" ELSE "W",
        position |-> FSub(c.pt.y, fy),
        distance |-> c.dist]

\* The `else` branch: the Hit derived from a horizontal-line candidate, whose
\* point is flipped back first.
YHit(r, c) ==
    LET p == flip(c.pt)
        fx == FFloor(p.x)
    IN [x |-> AsUsize(fx),
        y |-> IF FLt(r.d.y, Zero) THEN c.xi - 1 ELSE c.xi,
        direction |-> IF FLt(r.d.y, Zero) THEN "S" ELSE "N",
        position |-> FSub(p.x, fx),
        distance |-> c.dist]

NoHit == [x |-> 0, y |-> 0, direction |-> "-", position |-> NaN, distance |-> NaN]

\* The final test of Raycaster::next: whether the derived Hit is returned.
Emitted(g, h) == ~(~contains(g, h.x, h.y) \/ is_infinite(h.distance))

\* Raycaster::next.  some/hit are the Option<Hit> returned and rc the Raycaster
\* afterwards; axis, idx and q record the candidate that was consumed (q is the
\* crossing point in unflipped coordinates).
RaycasterNext(r) ==
    LET w == Winner(r)
    IN IF w = "none"
       THEN [some |-> FALSE, hit |-> NoHit, axis |-> "none", idx |-> 0,
             q |-> v(NaN, NaN), rc |-> r]
       ELSE IF w = "x"
       THEN LET c == InterceptorHead(r.xint)
                h == XHit(r, c)
            IN [some |-> Emitted(r.g, h), hit |-> h, axis |-> "x", idx |-> c.xi,
                q |-> c.pt, rc |-> [r EXCEPT !.xint = InterceptorAdvance(r.xint)]]
       ELSE LET c == InterceptorHead(r.yint)
                h == YHit(r, c)
            IN [some |-> Emitted(r.g, h), hit |-> h, axis |-> "y", idx |-> c.xi,
                q |-> flip(c.pt), rc |-> [r EXCEPT !.yint = InterceptorAdvance(r.yint)]]

\* The ray's origin, as the vertical Interceptor holds it.
Origin(r) == r.xint.p

-----------------------------------------------------------------------------
(* render.rs: clip *)

\* The outcomes of a u32 computation: a value, or `bound - 1` taken at
\* bound = 0, which panics in a build with overflow checks and wraps to
\* u32::MAX (2^32 - 1, beyond TLC's integers, so it is kept as a tag) in one
\* without.
U32(n) == [k |-> "val", n |-> n]
U32Panic == [k |-> "overflow panic", n |-> 0]
U32Wrapped == [k |-> "wrapped to u32::MAX", n |-> 0]

\* `bound - 1` on u32: the outcomes the build can produce.
BoundMinusOne(bound) == IF bound = 0 THEN {U32Panic, U32Wrapped} ELSE {U32(bound - 1)}

\* clip returning `bound` where the code returns `bound - 1`.
clip_to_bound(x, bound) ==
    IF FLt(x, Zero) THEN {U32(0)}
    ELSE IF FGe(x, F(bound)) THEN {U32(bound)}
    ELSE {U32(AsUsize(FFloor(x)))}

\* clip(x, bound): the set of outcomes.  (`as u32` saturates like `as usize`;
\* in the last branch the value is below `bound`, so the width does not show.)
clip(x, bound) ==
    IF FLt(x, Zero) THEN {U32(0)}
    ELSE IF FGe(x, F(bound)) THEN BoundMinusOne(bound)
    ELSE {U32(AsUsize(FFloor(x)))}

-----------------------------------------------------------------------------
(* loader.rs: load_map, check_borders, Map::load *)

SpawnChars == {"N", "S", "E", "W"}

\* The `match cell` of load_map: the MapCell a character stands for.
CellOf(ch) ==
    IF ch = "0" THEN "Space"
    ELSE IF ch \in {"1", " "} THEN "Wall"
    ELSE IF ch = "2" THEN "Item"
    ELSE IF ch \in SpawnChars THEN "Space"
    ELSE "invalid"

NoSpawn == [set |-> FALSE, x |-> 0, y |-> 0, direction |-> "-"]

Max(a, b) == IF a >= b THEN a ELSE b

RECURSIVE MaxLen(_)
MaxLen(ls) == IF ls = <<>> THEN 0 ELSE Max(Len(ls[1]), MaxLen(Tail(ls)))

\* The two nested loops of load_map from cell (y, x) on, in row-major order,
\* with the spawn found so far: the first invalid character or second spawn
\* point ends them with an error.
RECURSIVE ScanCells(_, _, _, _)
ScanCells(ls, y, x, spawn) ==
    IF y >= Len(ls) THEN [ok |-> TRUE, spawn |-> spawn, err |-> ""]
    ELSE IF x >= Len(ls[y + 1]) THEN ScanCells(ls, y + 1, 0, spawn)
    ELSE LET ch == ls[y + 1][x + 1]
         IN IF ch \in SpawnChars
            THEN IF spawn.set
                 THEN [ok |-> FALSE, spawn |-> spawn, err |-> "More than one spawn point found"]
                 ELSE ScanCells(ls, y, x + 1,
                                [set |-> TRUE, x |-> x, y |-> y, direction |-> ch])
            ELSE IF CellOf(ch) = "invalid"
            THEN [ok |-> FALSE, spawn |-> spawn, err |-> "Invalid char"]
            ELSE ScanCells(ls, y, x + 1, spawn)

\* The grid load_map fills: Wall everywhere, then the cells the lines give.
DataOf(ls) ==
    [y \in 0 .. Len(ls) - 1 |->
        [x \in 0 .. MaxLen(ls) - 1 |->
            IF x < Len(ls[y + 1]) THEN CellOf(ls[y + 1][x + 1]) ELSE "Wall"]]

NoData == <<>>

\* load_map, for at least one line (Map::load never passes fewer: headers()
\* stops at a line it has peeked and not consumed).
load_map(ls) ==
    LET s == ScanCells(ls, 0, 0, NoSpawn)
    IN IF ~s.ok THEN [ok |-> FALSE, data |-> NoData, spawn |-> NoSpawn, err |-> s.err]
       ELSE IF ~s.spawn.set
       THEN [ok |-> FALSE, data |-> NoData, spawn |-> NoSpawn, err |-> "map without spawn point"]
       ELSE [ok |-> TRUE, data |-> DataOf(ls), spawn |-> s.spawn, err |-> ""]

extents(data) == <<Cardinality(DOMAIN data), IF DOMAIN data = {} THEN 0 ELSE Cardinality(DOMAIN data[0])>>

\* check_borders testing only the first row and the first column.
check_borders_first_only(data) ==
    LET h == extents(data)[1]
        w == extents(data)[2]
    IN /\ \A y \in {0} : \A x \in 0 .. w - 1 : data[y][x] = "Wall"
       /\ \A x \in {0} : \A y \in 0 .. h - 1 : data[y][x] = "Wall"

\* check_borders: TRUE for Ok(()), FALSE for the bail.
check_borders(data) ==
    LET h == extents(data)[1]
        w == extents(data)[2]
    IN /\ \A y \in {0, h - 1} : \A x \in 0 .. w - 1 : data[y][x] = "Wall"
       /\ \A x \in {0, w - 1} : \A y \in 0 .. h - 1 : data[y][x] = "Wall"

LoadErr(e) == [ok |-> FALSE, data |-> NoData, spawn |-> NoSpawn, err |-> e]

\* Map::load once the lines are split: headersOk stands for everything read
\* from the header section (resolution, textures, sprite, colours) loading.
MapLoad(headersOk, ls) ==
    IF ~headersOk THEN LoadErr("header")
    ELSE LET m == load_map(ls)
         IN IF ~m.ok THEN m
            ELSE IF ~check_borders(m.data) THEN LoadErr("Edge cell isn't a wall")
            ELSE m

-----------------------------------------------------------------------------
(* loader.rs: Direction::angle; render.rs: Render::spawn, Render::render *)

\* Vector::angle(d.angle()) for the four spawn directions (E 0, S 90, W 180,
\* N 270 degrees), at its exact value.
AngleOf(direction) ==
    IF direction = "E" THEN v(One, Zero)
    ELSE IF direction = "S" THEN v(Zero, One)
    ELSE IF direction = "W" THEN v(FNeg(One), Zero)
    ELSE v(Zero, FNeg(One))

\* sin of the 30 degree field of view, at its exact value.
SinFov == Rat(1, 2)

FSq(a) == FMul(a, a)

\* The square of tan(vfov) for vfov = asin(sin(fov) * res.1 / res.0), at its
\* exact value s^2 / (1 - s^2): asin is NaN outside [-1, 1], and at s = 1 the
\* tangent is taken as +inf.
TanVfov2(res) ==
    LET s == FDiv(FMul(SinFov, F(res[2])), F(res[1]))
    IN IF IsNaN(s) \/ ~FLe(s, One) THEN NaN
       ELSE FDiv(FSq(s), FSub(One, FSq(s)))

\* Render::spawn: the camera at the centre of the spawn cell, facing the spawn
\* direction, with a buffer of the map's resolution.  vfov is kept as the
\* square of its tangent, the only way render uses it.
RenderSpawn(m) ==
    [pos |-> v(FAdd(F(m.spawn.x), Rat(1, 2)), FAdd(F(m.spawn.y), Rat(1, 2))),
     cam |-> AngleOf(m.spawn.direction),
     vfov_tan2 |-> TanVfov2(m.resolution),
     w |-> m.resolution[1],
     h |-> m.resolution[2],
     height |-> Rat(3, 5)]

\* The ray of screen column x: cam + dx * (x - half_width).
RayOf(r, x) ==
    LET half_width == FDiv(F(r.w), F(2))
        dx == VScale(turn(r.cam), FDiv(SinFov, half_width))
    IN VAdd(r.cam, VScale(dx, FSub(F(x), half_width)))

\* Raycaster.filter(|h| data[[h.y, h.x]] == Wall).next(): the first Hit on a
\* Wall cell, or None as soon as the Raycaster returns None.
RECURSIVE FirstWall(_, _)
FirstWall(r, data) ==
    LET n == RaycasterNext(r)
    IN IF ~n.some THEN [some |-> FALSE, hit |-> NoHit]
       ELSE IF data[n.hit.y][n.hit.x] = "Wall" THEN [some |-> TRUE, hit |-> n.hit]
       ELSE FirstWall(n.rc, data)

\* The wall hit of column x in Render::render; some = FALSE is the `expect`
\* that aborts the program.
ColumnHit(m, r, x) ==
    LET grid == Grid(extents(m.data)[1], extents(m.data)[2])
    IN FirstWall(RaycasterNew(r.pos, RayOf(r, x), grid), m.data)

\* The square of vss = hit.distance.sqrt() * vfov.tan(); sqrt is NaN below 0
\* and keeps 0 and +inf.
Vss2(r, hit) ==
    IF FLt(hit.distance, Zero) THEN NaN ELSE FMul(hit.distance, r.vfov_tan2)

\* k <= base + sign * sqrt(rad) for an integer k, finite base and rad >= 0, by
\* comparing squares: k - base is (k * base.d - base.n) / base.d, and its
\* square is set against rad after multiplying out the denominators.
AtOrBelow(k, base, sign, rad) ==
    LET gap == k * base.d - base.n
    IN IF sign > 0
       THEN gap <= 0 \/ gap * gap * rad.d <= rad.n * base.d * base.d
       ELSE gap <= 0 /\ rad.n * base.d * base.d <= gap * gap * rad.d

\* The largest integer k in lo .. hi - 1 with AtOrBelow(k, ...), which holds at
\* lo and fails at hi.
RECURSIVE LargestAtOrBelow(_, _, _, _, _)
LargestAtOrBelow(lo, hi, base, sign, rad) ==
    IF hi <= lo + 1 THEN lo
    ELSE LET mid == (lo + hi) \div 2
         IN IF AtOrBelow(mid, base, sign, rad)
            THEN LargestAtOrBelow(mid, hi, base, sign, rad)
            ELSE LargestAtOrBelow(lo, mid, base, sign, rad)

\* floor(base + sign * sqrt(rad)): sqrt(rad) is below rad + 1, so the floor is
\* within floor(rad) + 2 of floor(base).
SurdFloor(base, sign, rad) ==
    LET b == FloorDiv(base.n, base.d)
        span == FloorDiv(rad.n, rad.d) + 2
    IN IF sign > 0
       THEN LargestAtOrBelow(b, b + span + 1, base, sign, rad)
       ELSE LargestAtOrBelow(b - span, b + 1, base, sign, rad)

\* The floor of half_height * (1.0 + sign * c / vss), the argument render
\* hands to clip, from the square of vss.  clip tells an f64 from its floor in
\* none of its three branches (its bound is an integer), so the argument is
\* carried as its floor.
RowArg(half_height, sign, c, vss2) ==
    IF IsNaN(vss2) THEN NaN
    ELSE IF vss2 = Zero \/ is_infinite(vss2)
    THEN LET q == FDiv(c, vss2)
         IN FFloor(FMul(half_height, FAdd(One, IF sign > 0 THEN q ELSE FNeg(q))))
    ELSE F(SurdFloor(half_height, sign, FDiv(FMul(FSq(half_height), FSq(c)), vss2)))

\* The put_pixel calls of `for y in from..to`, in order.
Fill(x, from, to, colour) ==
    [i \in 1 .. (to - from) |-> [x |-> x, y |-> from + i - 1, colour |-> colour]]

NoStrip(h) ==
    [some |-> h.some, hit |-> h.hit, ceil |-> 0, floor |-> 0,
     panicked |-> TRUE, writes |-> <<>>]

\* Lines 64-88 of Render::render for the wall hit h of column x: the outcomes.
\* A clip that underflowed panics, or returns u32::MAX for a buffer of height
\* 0, where the first put_pixel then panics.  floor < ceil makes `floor - ceil`
\* underflow after the ceiling fill: a panic, or a wrapped difference with an
\* empty texture loop and a floor fill from `floor`.
Strips(r, x, h) ==
    LET half_height == FDiv(F(r.h), F(2))
        vss2 == Vss2(r, h.hit)
        ceils == clip(RowArg(half_height, -1, FSub(One, r.height), vss2), r.h)
        floors == clip(RowArg(half_height, 1, r.height, vss2), r.h)
        Strip(c, f) ==
            IF c.k # "val" \/ f.k # "val" THEN {NoStrip(h)}
            ELSE LET ceiling == Fill(x, 0, c.n, "ceiling")
                     done == [some |-> TRUE, hit |-> h.hit, ceil |-> c.n, floor |-> f.n,
                              panicked |-> FALSE,
                              writes |-> ceiling \o Fill(x, c.n, f.n, "texture")
                                                 \o Fill(x, f.n, r.h, "floor")]
                 IN IF f.n < c.n
                    THEN {[done EXCEPT !.panicked = TRUE, !.writes = ceiling], done}
                    ELSE {done}
    IN UNION {Strip(c, f) : c \in ceils, f \in floors}

\* One iteration of the column loop: the `expect` that aborts, or the strip.
ColumnStrips(m, r, x) ==
    LET h == ColumnHit(m, r, x)
    IN IF ~h.some THEN {NoStrip(h)} ELSE Strips(r, x, h)

-----------------------------------------------------------------------------
(* Bounds and input sets *)

\* Grid sides run over 0..MaxSize.
MaxSize == 3

\* Twice the coordinates an origin is drawn from: every half from 0 to
\* MaxSize, one point on the negative side and one beyond the far edge.
Coords2 == {-1} \cup (0 .. 2 * MaxSize) \cup {2 * MaxSize + 3}
Coords == {Rat(c, 2) : c \in Coords2}

\* Direction components.
DirVals == {-2, -1, 0, 1, 2}

Origins == {v(x, y) : x \in Coords, y \in Coords}
Directions == {v(F(a), F(b)) : a \in DirVals, b \in DirVals}
Grids == {Grid(h, w) : h \in 0 .. MaxSize, w \in 0 .. MaxSize}

Idle == "idle"

-----------------------------------------------------------------------------
(* Driving one Raycaster: SpecRay *)

RayIdle == rc = Idle /\ out = <<>>
IntIdle == it = Idle /\ iarg = Idle /\ trip = <<>>
ClipIdle == cx = Idle /\ cbound = 0 /\ cres = Idle
LoadIdle == lines = <<>> /\ hdr = FALSE /\ lres = Idle
RenderIdle == map = Idle /\ rnd = Idle /\ col = 0 /\ strips = <<>>

InitRay ==
    /\ \E p \in Origins, d \in Directions, g \in Grids : rc = RaycasterNew(p, d, g)
    /\ out = <<>>
    /\ IntIdle /\ ClipIdle /\ LoadIdle /\ RenderIdle

\* Both Interceptors are exhausted and a call has already reported it: every
\* further call takes the (None, None) arm and changes nothing.
RayFinished == out # <<>> /\ out[Len(out)].axis = "none"

\* One call of Raycaster::next.
RayNext ==
    /\ ~RayFinished
    /\ LET r == RaycasterNext(rc)
       IN /\ rc' = r.rc
          /\ out' = Append(out, [some |-> r.some, hit |-> r.hit, axis |-> r.axis,
                                 idx |-> r.idx, q |-> r.q])
    /\ UNCHANGED <<intVars, clipVars, loadVars, renderVars>>

NextRay == RayNext

SpecRay == InitRay /\ [][NextRay]_vars


-----------------------------------------------------------------------------
(* Driving one Interceptor: SpecInt *)

Sizes == 0 .. MaxSize

InitInt ==
    /\ \E p \in Origins, d \in Directions, size \in Sizes :
          /\ iarg = [p |-> p, d |-> d, size |-> size]
          /\ it = InterceptorNew(p, d, size)
    /\ trip = <<>>
    /\ RayIdle /\ ClipIdle /\ LoadIdle /\ RenderIdle

\* The stand-alone Interceptor has returned None: every further call does too
\* and changes nothing.
IntFinished == trip # <<>> /\ ~trip[Len(trip)].some

\* One call of Interceptor::next: the next triple, or None from an exhausted
\* range.
IntNext ==
    /\ ~IntFinished
    /\ IF InterceptorDone(it)
       THEN /\ trip' = Append(trip, [some |-> FALSE, item |-> NoItem])
            /\ it' = it
       ELSE /\ trip' = Append(trip, [some |-> TRUE, item |-> InterceptorHead(it)])
            /\ it' = InterceptorAdvance(it)
    /\ UNCHANGED <<iarg, rayVars, clipVars, loadVars, renderVars>>

NextInt == IntNext

SpecInt == InitInt /\ [][NextInt]_vars

-----------------------------------------------------------------------------
(* Calling clip: SpecClip *)

\* clip's bound runs over 0..MaxBound.
MaxBound == 5

\* The f64 arguments: every half from -3/2 to MaxBound + 3/2, and the specials.
ClipArgs == {Rat(c, 2) : c \in -3 .. 2 * MaxBound + 3} \cup {PInf, NInf, NaN}

Pending == [k |-> "pending", n |-> 0]

InitClip ==
    /\ cx \in ClipArgs
    /\ cbound \in 0 .. MaxBound
    /\ cres = Pending
    /\ RayIdle /\ IntIdle /\ LoadIdle /\ RenderIdle

\* The call clip(cx, cbound).
Clip ==
    /\ cres = Pending
    /\ cres' \in clip(cx, cbound)
    /\ UNCHANGED <<cx, cbound, rayVars, intVars, loadVars, renderVars>>

NextClip == Clip

SpecClip == InitClip /\ [][NextClip]_vars

-----------------------------------------------------------------------------
(* Loading a map: SpecLoad *)

\* The map section has 1..MaxRows lines of 0..MaxCols characters.
MaxRows == 4
MaxCols == 4

\* What the inner cells of a room are filled with, the spawn characters put
\* into it, and the characters one further cell is changed to.
FillChars == {"1", "0"}
SpawnPut == {"N"}
OddChars == {" ", "0", "2", "S", "?"}

\* One cell of the text set to a character, or no cell (on = FALSE).
CellEdits(h, w, chars) ==
    {[on |-> FALSE, y |-> 0, x |-> 0, ch |-> "-"]}
        \cup {[on |-> TRUE, y |-> y, x |-> x, ch |-> c] :
                 y \in 1 .. h, x \in 1 .. w, c \in chars}

\* One line cut to fewer than w characters, or no line (on = FALSE).
Cuts(h, w) ==
    {[on |-> FALSE, y |-> 0, len |-> 0]}
        \cup {[on |-> TRUE, y |-> y, len |-> n] : y \in 1 .. h, n \in 0 .. w - 1}

\* h lines of w characters: "1" on the outer edge and `fill` inside, then the
\* spawn character, then the odd character, then the cut line.
RoomText(h, w, fill, spawn, odd, cut) ==
    [y \in 1 .. h |->
        [x \in 1 .. (IF cut.on /\ cut.y = y THEN cut.len ELSE w) |->
            IF odd.on /\ odd.y = y /\ odd.x = x THEN odd.ch
            ELSE IF spawn.on /\ spawn.y = y /\ spawn.x = x THEN spawn.ch
            ELSE IF y \in 2 .. h - 1 /\ x \in 2 .. w - 1 THEN fill
            ELSE "1"]]

\* headers() hands over the lines from the first one that is not empty and
\* does not start with a letter.
MapSection(ls) == Len(ls[1]) > 0 /\ ls[1][1] \notin SpawnChars

NotLoaded == [ok |-> FALSE, data |-> NoData, spawn |-> NoSpawn, err |-> "not loaded"]

InitLoad ==
    /\ \E h \in 1 .. MaxRows, w \in 1 .. MaxCols, fill \in FillChars :
          \E spawn \in CellEdits(h, w, SpawnPut), odd \in CellEdits(h, w, OddChars),
             cut \in Cuts(h, w) :
               /\ lines = RoomText(h, w, fill, spawn, odd, cut)
               /\ MapSection(lines)
    /\ hdr = FALSE
    /\ lres = NotLoaded
    /\ RayIdle /\ IntIdle /\ ClipIdle /\ RenderIdle

\* The call Map::load, whose header section loads or does not.
Load ==
    /\ lres = NotLoaded
    /\ \E headersOk \in BOOLEAN :
          /\ hdr' = headersOk
          /\ lres' = MapLoad(headersOk, lines)
    /\ UNCHANGED <<lines, rayVars, intVars, clipVars, renderVars>>

NextLoad == Load

SpecLoad == InitLoad /\ [][NextLoad]_vars

-----------------------------------------------------------------------------
(* Rendering a loaded map: SpecRender *)

\* Maps have 3..MaxMap rows and columns.
MaxMap == 4

\* The widths (and heights) of the screen buffer.
ScreenWidths == {0, 1, 2, 3, 6}

\* The inner cells of a map: Render::render sees through every cell that is
\* not a Wall, Space and Item alike.
InnerCells == {"Space", "Wall"}

\* The grids of h rows and w columns whose outer edge is Wall.
Enclosed(h, w) ==
    LET inner == (1 .. h - 2) \X (1 .. w - 2)
    IN {[y \in 0 .. h - 1 |-> [x \in 0 .. w - 1 |->
            IF <<y, x>> \in inner THEN f[<<y, x>>] ELSE "Wall"]] :
        f \in [inner -> InnerCells]}

\* The Maps Map::load returns with the given resolution: the borders checked,
\* and the spawn point on a cell that load_map made a Space.
LoadedMaps(res) ==
    {m \in {[data |-> d, spawn |-> [set |-> TRUE, x |-> sx, y |-> sy, direction |-> dir],
             resolution |-> res] :
               d \in UNION {Enclosed(h, w) : h \in 3 .. MaxMap, w \in 3 .. MaxMap},
               sx \in 0 .. MaxMap - 1, sy \in 0 .. MaxMap - 1, dir \in SpawnChars} :
        /\ m.spawn.y \in DOMAIN m.data
        /\ m.spawn.x \in DOMAIN m.data[0]
        /\ m.data[m.spawn.y][m.spawn.x] = "Space"
        /\ check_borders(m.data)}

\* What bin/render.rs may store in the public field `cam` before rendering.
Cams == {v(F(a), F(b)) : a \in {-1, 1}, b \in {-1, 1}}

\* Render::spawn(&map) on a loaded Map; `map` keeps what Render::render reads.
InitRender ==
    /\ \E sw \in ScreenWidths : \E m \in LoadedMaps(<<sw, sw>>) :
          /\ map = [data |-> m.data]
          /\ rnd = RenderSpawn(m)
    /\ col = 0
    /\ strips = <<>>
    /\ RayIdle /\ IntIdle /\ ClipIdle /\ LoadIdle

\* The program aborted in the `expect` of some column.
Aborted == \E i \in 1 .. Len(strips) : ~strips[i].some

\* The program panicked in some column.
Panicked == \E i \in 1 .. Len(strips) : strips[i].panicked

\* bin/render.rs: `r.cam = ...` between Render::spawn and Render::render.
SetCam ==
    /\ col = 0
    /\ \E c \in Cams : rnd' = [rnd EXCEPT !.cam = c]
    /\ UNCHANGED <<map, col, strips, rayVars, intVars, clipVars, loadVars>>

\* One iteration of the column loop of Render::render.
RenderColumn ==
    /\ col < rnd.w
    /\ ~Aborted /\ ~Panicked
    /\ \E s \in ColumnStrips(map, rnd, col) : strips' = Append(strips, s)
    /\ col' = col + 1
    /\ UNCHANGED <<map, rnd, rayVars, intVars, clipVars, loadVars>>

NextRender == SetCam \/ RenderColumn

SpecRender == InitRender /\ [][NextRender]_vars

-----------------------------------------------------------------------------
(* Rendering a frame of any resolution in an open room: SpecFrame *)

\* The buffer is 0..MaxRes wide and 0..MaxRes high.
MaxRes == 6

\* The grid of h rows and w columns with Wall on the outer edge and Space
\* inside.
OpenRoom(h, w) ==
    [y \in 0 .. h - 1 |-> [x \in 0 .. w - 1 |->
        IF y \in 1 .. h - 2 /\ x \in 1 .. w - 2 THEN "Space" ELSE "Wall"]]

\* Render::spawn(&map) on an open room of 3..MaxMap rows and columns, spawn on
\* any inner cell, with any resolution.
InitFrame ==
    /\ \E rw \in 0 .. MaxRes, rh \in 0 .. MaxRes, h \in 3 .. MaxMap, w \in 3 .. MaxMap :
          \E sy \in 1 .. h - 2, sx \in 1 .. w - 2, dir \in SpawnChars :
             LET m == [data |-> OpenRoom(h, w),
                       spawn |-> [set |-> TRUE, x |-> sx, y |-> sy, direction |-> dir],
                       resolution |-> <<rw, rh>>]
             IN /\ map = [data |-> m.data]
                /\ rnd = RenderSpawn(m)
    /\ col = 0
    /\ strips = <<>>
    /\ RayIdle /\ IntIdle /\ ClipIdle /\ LoadIdle

NextFrame == SetCam \/ RenderColumn

SpecFrame == InitFrame /\ [][NextFrame]_vars

-----------------------------------------------------------------------------
(* Claims about the Raycaster (checked under SpecRay) *)

\* The calls so far that returned Some(hit).
EmittedAt == {i \in 1 .. Len(out) : out[i].some}

\* The calls so far that returned None after consuming a candidate (its cell was
\* outside the grid or its distance infinite).
RejectedAt == {i \in 1 .. Len(out) : ~out[i].some /\ out[i].axis # "none"}

\* The origin lies in a cell of the grid.
InsideGrid(p, g) ==
    /\ FLe(Zero, p.x) /\ FLt(p.x, F(g.width))
    /\ FLe(Zero, p.y) /\ FLt(p.y, F(g.height))

\* C1: the Hits emitted by successive Raycaster::next calls have non-decreasing
\* distance: each emitted distance is >= every distance emitted before it.
C1_DistanceNonDecreasing ==
    \A i \in EmittedAt : \A j \in EmittedAt :
        i < j => FGe(out[j].hit.distance, out[i].hit.distance)

\* C2: for a ray starting inside the grid, every emitted Hit comes from a
\* crossing point inside the grid rectangle, and its cell coordinate along the
\* crossed line is the floor of the crossing point's coordinate.
C2_CrossingInsideGrid ==
    InsideGrid(Origin(rc), rc.g) =>
        \A i \in EmittedAt :
            LET e == out[i]
            IN /\ FLe(Zero, e.q.x) /\ FLe(e.q.x, F(rc.g.width))
               /\ FLe(Zero, e.q.y) /\ FLe(e.q.y, F(rc.g.height))
               /\ e.axis = "x" => F(e.hit.y) = FFloor(e.q.y)
               /\ e.axis = "y" => F(e.hit.x) = FFloor(e.q.x)

\* C3: once next has returned None for a candidate outside the grid or at
\* infinite distance, every later call returns None.
C3_NoneIsFinal ==
    \A i \in RejectedAt : \A j \in EmittedAt : ~(i < j)

\* C7: every emitted Hit reports the cell being entered and the face turned
\* toward the origin, and its position is the fractional part of the crossing
\* point's other coordinate, in [0,1).
C7_CellFacePosition ==
    \A i \in EmittedAt :
        LET e == out[i]
            other == IF e.axis = "x" THEN e.q.y ELSE e.q.x
        IN /\ e.axis = "x" =>
                IF FLt(rc.d.x, Zero)
                THEN e.hit.x = e.idx - 1 /\ e.hit.direction = "E"
                ELSE e.hit.x = e.idx /\ e.hit.direction = "W"
           /\ e.axis = "y" =>
                IF FLt(rc.d.y, Zero)
                THEN e.hit.y = e.idx - 1 /\ e.hit.direction = "S"
                ELSE e.hit.y = e.idx /\ e.hit.direction = "N"
           /\ e.hit.position = FSub(other, FFloor(other))
           /\ FLe(Zero, e.hit.position) /\ FLt(e.hit.position, One)

\* C8: a ray from inside the grid with a zero direction component on an axis
\* gets no Hit from that axis's Interceptor: no E/W face when d.x = 0, no N/S
\* face when d.y = 0.
C8_NoHitFromDegenerateAxis ==
    InsideGrid(Origin(rc), rc.g) =>
        \A i \in EmittedAt :
            /\ rc.d.x = Zero => out[i].axis # "x" /\ out[i].hit.direction \notin {"E", "W"}
            /\ rc.d.y = Zero => out[i].axis # "y" /\ out[i].hit.direction \notin {"N", "S"}


\* Both direction components are nonzero.
NonDegenerate(d) == d.x # Zero /\ d.y # Zero

\* C5: for a direction with both components nonzero, every emitted Hit lies in
\* the grid (0 <= x < width, 0 <= y < height), and the sequence is finite: at
\* most width + height calls return a Hit before one returns None.
C5_FiniteAndInGrid ==
    NonDegenerate(rc.d) =>
        /\ \A i \in EmittedAt :
              /\ 0 <= out[i].hit.x /\ out[i].hit.x < rc.g.width
              /\ 0 <= out[i].hit.y /\ out[i].hit.y < rc.g.height
        /\ Len(out) > rc.g.width + rc.g.height =>
              \E i \in 1 .. rc.g.width + rc.g.height + 1 : ~out[i].some

\* A ray with both components nonzero that emitted width + height Hits, all
\* that fit, before the call that ended it.
C5_Witness ==
    /\ NonDegenerate(rc.d)
    /\ rc.g.width >= 2 /\ rc.g.height >= 2
    /\ Len(out) = rc.g.width + rc.g.height + 1
    /\ \A i \in 1 .. Len(out) - 1 : out[i].some
    /\ ~out[Len(out)].some


-----------------------------------------------------------------------------
(* Claims about the Interceptor (checked under SpecInt) *)

\* ceil(a) as a mathematical integer, for a finite a.
CeilInt(a) == -FloorDiv(-a.n, a.d)

\* The k-th line index the claim expects, and how many it expects.
ExpectedIndex(k) ==
    IF FLt(Zero, iarg.d.x) THEN CeilInt(iarg.p.x) + k - 1 ELSE CeilInt(iarg.p.x) - k
ExpectedCount ==
    LET n == IF FLt(Zero, iarg.d.x) THEN iarg.size - CeilInt(iarg.p.x)
             ELSE CeilInt(iarg.p.x) - 1
    IN IF n < 0 THEN 0 ELSE n

\* The crossing of the ray with the vertical line at index i.
CrossingAt(i) ==
    v(F(i), FAdd(iarg.p.y, FDiv(FMul(FSub(F(i), iarg.p.x), iarg.d.y), iarg.d.x)))

\* The triples emitted so far, in order.
Triples == SelectSeq(trip, LAMBDA e : e.some)

\* What C6 says of the triples emitted so far, and of all of them once the
\* Interceptor has returned None.
TriplesAsClaimed ==
    LET t == [k \in 1 .. Len(Triples) |-> Triples[k].item]
    IN /\ \A i \in 1 .. Len(t) : \A j \in 1 .. Len(t) :
             i < j => FLt(t[i].dist, t[j].dist)
       /\ \A k \in 1 .. Len(t) :
             /\ t[k].xi = ExpectedIndex(k)
             /\ t[k].pt = CrossingAt(t[k].xi)
       /\ Len(t) <= ExpectedCount
       /\ IntFinished => Len(t) = ExpectedCount

-----------------------------------------------------------------------------
(* Claims about clip (checked under SpecClip) *)

\* clip returned an integer in [0, bound - 1] and `bound - 1` did not underflow.
ClipInRange == cres.k = "val" /\ 0 <= cres.n /\ cres.n <= cbound - 1

\* C9 as stated: for every finite v and every u32 bound, bound = 0 included,
\* clip(v, bound) returns r with 0 <= r <= bound - 1 without unsigned underflow.
C9_AsStated == (cres # Pending /\ IsFin(cx)) => ClipInRange

\* C9 amended: for every finite v and every u32 bound >= 1, clip(v, bound)
\* returns r with 0 <= r <= bound - 1 without unsigned underflow.
C9_ClipInRange == (cres # Pending /\ IsFin(cx) /\ cbound >= 1) => ClipInRange

\* clip has returned for a finite argument at or above a bound >= 2.
C9_Witness ==
    /\ cres # Pending /\ IsFin(cx)
    /\ cbound >= 2 /\ FGe(cx, F(cbound))
    /\ cres = U32(cbound - 1)

-----------------------------------------------------------------------------
(* Claims about the loader (checked under SpecLoad) *)

\* The width of the parsed grid: the length of a widest line.
TextWidth == CHOOSE n \in {Len(lines[i]) : i \in 1 .. Len(lines)} :
                \A i \in 1 .. Len(lines) : Len(lines[i]) <= n

\* The outer edge of the parsed grid, as (row, column) pairs from 0.
EdgeCells ==
    {c \in (0 .. Len(lines) - 1) \X (0 .. TextWidth - 1) :
        c[1] \in {0, Len(lines) - 1} \/ c[2] \in {0, TextWidth - 1}}

\* The character of line y at column x makes a Wall, or the line is too short
\* to have one (the cell keeps the Wall it was padded with).
WallInText(y, x) == x < Len(lines[y + 1]) => lines[y + 1][x + 1] \in {"1", " "}

\* C10: Map::load returns an error whenever a cell of the first or last row or
\* column of the parsed grid is not Wall; a Map is returned only when the whole
\* outer edge is Wall, short rows counting as padded with Wall.
C10_EdgeIsWall ==
    lres # NotLoaded =>
        /\ (\E c \in EdgeCells : ~WallInText(c[1], c[2])) => ~lres.ok
        /\ lres.ok => \A c \in EdgeCells : lres.data[c[1]][c[2]] = "Wall"

\* A Map was returned for a text with a line shorter than the widest one, and
\* its grid has an inner cell.
C10_Witness ==
    /\ lres.ok
    /\ \E i \in 1 .. Len(lines) : Len(lines[i]) < TextWidth
    /\ Len(lines) >= 3 /\ TextWidth >= 3


-----------------------------------------------------------------------------
(* Claims about the renderer (checked under SpecRender) *)

\* C4: on a map whose outer edge is all Wall, with the spawn on an inner cell,
\* Render::render finds a Wall hit for every screen column: the `expect` never
\* aborts, whatever the camera direction and the column.
C4_EveryColumnHitsWall ==
    \A i \in 1 .. Len(strips) :
        /\ strips[i].some
        /\ map.data[strips[i].hit.y][strips[i].hit.x] = "Wall"

\* The ray of column x runs along a grid axis.
AxisParallel(x) == RayOf(rnd, x).x = Zero \/ RayOf(rnd, x).y = Zero

\* A Hit whose crossing point is a corner of the grid: its position along the
\* face is 0.
AtCorner(h) == h.position = Zero

\* A frame rendered to its last column, with a column whose ray is parallel to
\* an axis and a column whose wall hit is exactly at a grid corner.
C4_Witness ==
    /\ col = rnd.w /\ rnd.w >= 2
    /\ ~Aborted
    /\ \E i \in 1 .. Len(strips) : AxisParallel(i - 1)
    /\ \E i \in 1 .. Len(strips) : AtCorner(strips[i].hit)

-----------------------------------------------------------------------------
(* Claims about the rows of a column (checked under SpecFrame) *)

\* 0 <= ceil <= floor <= screenHeight - 1 for the strip s.
RowBounds(s) == 0 <= s.ceil /\ s.ceil <= s.floor /\ s.floor <= rnd.h - 1

\* The put_pixel calls of the strip s are all in column x, write every row of
\* the buffer exactly once, and colour [0, ceil) as ceiling, [ceil, floor) as
\* texture and [floor, screenHeight) as floor.
Partitions(s, x) ==
    /\ \A j \in 1 .. Len(s.writes) : s.writes[j].x = x
    /\ \A y \in 0 .. rnd.h - 1 :
          /\ Cardinality({j \in 1 .. Len(s.writes) : s.writes[j].y = y}) = 1
          /\ \A j \in 1 .. Len(s.writes) :
                s.writes[j].y = y =>
                    s.writes[j].colour = (IF y < s.ceil THEN "ceiling"
                                          ELSE IF y < s.floor THEN "texture"
                                          ELSE "floor")
    /\ \A j \in 1 .. Len(s.writes) : s.writes[j].y \in 0 .. rnd.h - 1

=============================================================================
